---------------------------- MODULE Spec2Model ----------------------------
(***************************************************************************)
(* State-machine model of kendryte_boot (src/src/main.rs): the host-side   *)
(* loader for the Kendryte K230 mask-ROM USB protocol.                     *)
(*                                                                         *)
(* Conventions.                                                            *)
(*  - Durations are in microseconds.                                       *)
(*  - A u32 is a sequence of 8 hexadecimal digits, most significant first  *)
(*    (0x8036_0000 is <<8,0,3,6,0,0,0,0>>); a u16 is an integer 0..65535.  *)
(*  - A byte of the input file is named by its offset in the file: a bulk  *)
(*    payload is the pair (off, len) of the file bytes [off, off+len).     *)
(*  - The input file is a regular file: a read of n bytes returns          *)
(*    min(n, bytes left to the end of the file).                           *)
(***************************************************************************)
EXTENDS Integers, Sequences, FiniteSets, TLC

VARIABLES
    devices,    \* nusb::list_devices(): the devices on the bus, [vid, pid]
    cmd,        \* Cli::parse().cmd: [op, space]
    pc,         \* position of main
    fatal,      \* why the process panicked ("none" while it has not)
    elapsed,    \* claim_interface: Instant::now() - now
    attemptAt,  \* claim_interface: elapsed time at which the last attempt began
    claimed,    \* how many times d.claim_interface returned Ok
    trace,      \* the transfers submitted to the device, in order
    resolved,   \* how many of them have a known outcome (block_on returned)
    xfer,       \* the transfer being awaited / the result block_on returned
    ibuf,       \* dev_info: buf ([0; 0x20]), <<>> outside dev_info
    addr,       \* main: addr (Run) / MASK_ROM_BASE (Rom)
    flen,       \* length of the opened file, NoFile before File::open
    reader,     \* BufReader: [fpos, pos, filled]
    chunk,      \* main: what the last reader.read left in buf: [off, len]
    failed,     \* history: a SetDataAddress, chunk or ProgStart did not return Ok
    ret,        \* what the last cmd_out call returned to its caller
    resp,       \* history: comp.data that cmd_in copied into buf (<<>> if none)
    infoFailed, \* history: the GetCpuInfo transfer timed out or failed
    attempts    \* history: d.claim_interface calls made so far, up to AttemptsCap

vars == <<devices, cmd, pc, fatal, elapsed, attemptAt, claimed, trace, resolved, xfer,
          ibuf, addr, flen, reader, chunk, failed, ret, resp,
          infoFailed, attempts>>

-----------------------------------------------------------------------------
(* Program constants *)

KENDRYTE_VID == 10737
K230D_PID == 560

CLAIM_INTERFACE_TIMEOUT == 1000000
CLAIM_INTERFACE_PERIOD == 200

EP0_GET_CPU_INFO == 0
EP0_SET_DATA_ADDRESS == 1
EP0_SET_DATA_LENGTH == 2
EP0_FLUSH_CACHES == 3
EP0_PROG_START == 4

CHUNK_SIZE == 512

\* Duration::from_secs(5) in cmd_in, cmd_out and the upload loop
timeout == 5000000

\* [0; 0x20] in dev_info
INFO_BUF_LEN == 32

\* BufReader::new: the capacity of std's BufReader
DEFAULT_BUF_SIZE == 8192

-----------------------------------------------------------------------------
(* 32-bit words as 8 hexadecimal digits *)

HexDigit == 0..15

RECURSIVE HexVal(_)
\* The number a digit sequence denotes (used for at most 4 digits).
HexVal(ds) ==
    IF ds = <<>> THEN 0
    ELSE 16 * HexVal(SubSeq(ds, 1, Len(ds) - 1)) + ds[Len(ds)]

\* The 4 hexadecimal digits of a u16.
ToHex4(n) ==
    <<(n \div 4096) % 16, (n \div 256) % 16, (n \div 16) % 16, n % 16>>

Zeros(n) == [i \in 1..n |-> 0]

\* `x as u32`: the low 32 bits.
AsU32(x) ==
    IF Len(x) >= 8 THEN SubSeq(x, Len(x) - 7, Len(x))
    ELSE Zeros(8 - Len(x)) \o x

\* `val >> bits` on a u32 (bits a multiple of 4).
Shr(val, bits) ==
    LET n == bits \div 4
    IN  IF n >= 8 THEN Zeros(8) ELSE Zeros(n) \o SubSeq(val, 1, 8 - n)

\* `val as u16`: the low 16 bits, as a number.
AsU16(val) == HexVal(SubSeq(val, 5, 8))

RECURSIVE AddCarry(_, _, _)
\* Digit-wise sum of two words of equal length with a carry in; the carry
\* out of the top digit is dropped (wrapping add).
AddCarry(a, b, c) ==
    IF a = <<>> THEN <<>>
    ELSE LET n == Len(a)
             s == a[n] + b[n] + c
         IN  AddCarry(SubSeq(a, 1, n - 1), SubSeq(b, 1, n - 1), s \div 16)
                 \o <<s % 16>>

Add32(a, b) == AddCarry(a, b, 0)

DRAM_BASE == <<0,0,0,0,0,0,0,0>>
DRAM_RUN_BASE == Add32(AsU32(DRAM_BASE), <<0,8,0,0,0,0,0,0>>)

SRAM_BASE == <<8,0,3,0,0,0,0,0>>
SRAM_RUN_BASE == Add32(AsU32(SRAM_BASE), <<0,0,0,6,0,0,0,0>>)

MASK_ROM_BASE == <<9,1,2,0,0,0,0,0>>

-----------------------------------------------------------------------------
(* Bounds of the environment *)

\* A claim attempt takes 0 or MaxClaimDelay retry periods.
MaxClaimDelay == 1
\* thread::sleep returns on time or MaxOversleep retry periods late.
MaxOversleep == 1
\* block_on polls the race when it is woken or MaxPollLatency later.
MaxPollLatency == 1
\* The input file holds at most MaxBlocks whole chunks plus a partial one.
MaxBlocks == 17
\* The claim attempts of a session are counted up to AttemptsCap.
AttemptsCap == 2

ClaimDurations == {0, MaxClaimDelay * CLAIM_INTERFACE_PERIOD}

\* thread::sleep(CLAIM_INTERFACE_PERIOD): never shorter than the period.
SleepDurations ==
    {CLAIM_INTERFACE_PERIOD,
     CLAIM_INTERFACE_PERIOD + MaxOversleep * CLAIM_INTERFACE_PERIOD}

PollLatencies == {0, MaxPollLatency}

\* When the device completes a transfer, counted from its submission.
CompletionTimes ==
    {1, timeout - 1, timeout, timeout + 1, timeout + MaxPollLatency + 1}

\* What the device does with a transfer: complete it at a time with a
\* status, or never complete it.
DeviceBehaviours ==
    {[completes |-> TRUE, at |-> t, ok |-> o] :
        t \in CompletionTimes, o \in BOOLEAN}
    \cup {[completes |-> FALSE, at |-> 0, ok |-> FALSE]}

\* What nusb::list_devices() may enumerate: no device, other devices, and
\* a K230 behind another device.
Buses ==
    { <<>>,
      <<[vid |-> 7531, pid |-> 260]>>,
      <<[vid |-> KENDRYTE_VID, pid |-> 561]>>,
      <<[vid |-> 7531, pid |-> K230D_PID]>>,
      <<[vid |-> 7531, pid |-> 260],
        [vid |-> KENDRYTE_VID, pid |-> K230D_PID]>> }

FileLengths ==
    {k * CHUNK_SIZE + r : k \in 0..MaxBlocks, r \in {0, 1, CHUNK_SIZE - 1}}

\* comp.data of the GetCpuInfo transfer: at most `length` bytes.
Responses ==
    { <<>>,
      <<75, 50, 51, 48>>,
      <<75, 50, 51, 48>> \o Zeros(INFO_BUF_LEN - 4),
      <<75, 50, 51, 48, 0, 0>>,
      [i \in 1..INFO_BUF_LEN |-> 64 + i],
      <<195, 169>>,
      <<226, 130, 172, 33>>,
      <<240, 159, 146, 169>>,
      <<255>>,
      <<195>>,
      <<75, 128>>,
      <<237, 160, 128>>,
      [i \in 1..INFO_BUF_LEN |-> IF i = INFO_BUF_LEN THEN 195 ELSE 65] }

-----------------------------------------------------------------------------
(* Command protocol: cmd_in, cmd_out *)

\* cmd_in: value, index and length of the control transfer
cmd_in_setup(buflen, val) ==
    [value |-> AsU16(Shr(val, 16)), index |-> AsU16(val), length |-> buflen]

\* Faulty variant: the parameter is shifted by one byte only.
cmd_out_setup_Shift8(val) ==
    [value |-> AsU16(Shr(val, 8)), index |-> AsU16(val), length |-> 0]

\* cmd_out: value and index of the control transfer (data: &[])
cmd_out_setup(val) ==
    [value |-> AsU16(Shr(val, 16)), index |-> AsU16(val), length |-> 0]

\* The ControlIn that cmd_in submits; param records the argument val.
ControlIn(buflen, request, val) ==
    LET s == cmd_in_setup(buflen, val)
    IN  [type |-> "control_in", request |-> request, value |-> s.value,
         index |-> s.index, length |-> s.length, param |-> val, off |-> 0]

\* The ControlOut that cmd_out submits.
ControlOut(request, val) ==
    LET s == cmd_out_setup(val)
    IN  [type |-> "control_out", request |-> request, value |-> s.value,
         index |-> s.index, length |-> s.length, param |-> val, off |-> 0]

\* i.bulk_out(e_out_addr, buf[..len].to_vec()): file bytes [off, off+len)
BulkOut(off, len) ==
    [type |-> "bulk_out", request |-> 0, value |-> 0, index |-> 0,
     length |-> len, param |-> Zeros(8), off |-> off]

\* Faulty variant: the identity query asks for no data.
dev_info_request_NoBuffer == ControlIn(0, EP0_GET_CPU_INFO, Zeros(8))

dev_info_request == ControlIn(INFO_BUF_LEN, EP0_GET_CPU_INFO, Zeros(8))

\* Faulty variant: the address goes out as SetDataLength.
set_code_addr_WrongOpcode(a) == ControlOut(EP0_SET_DATA_LENGTH, a)

set_code_addr(a) == ControlOut(EP0_SET_DATA_ADDRESS, a)

run_code(a) == ControlOut(EP0_PROG_START, a)

\* Faulty variant: the test on space is inverted.
RunBase_Inverted(space) ==
    IF space = "dram" THEN SRAM_RUN_BASE ELSE DRAM_RUN_BASE

\* let addr = if space == Space::Dram { DRAM_RUN_BASE } else { SRAM_RUN_BASE }
RunBase(space) == IF space = "dram" THEN DRAM_RUN_BASE ELSE SRAM_RUN_BASE

-----------------------------------------------------------------------------
(* Timed transfer: block_on(fut.or(async { Timer::after(timeout) ... })) *)

NoXfer ==
    [state |-> "idle", completes |-> FALSE, at |-> 0, ok |-> FALSE,
     polled |-> 0, outcome |-> "None"]

Pending(dev) ==
    [state |-> "pending", completes |-> dev.completes, at |-> dev.at,
     ok |-> dev.ok, polled |-> 0, outcome |-> "Pending"]

\* comp.status.map_err(io::Error::other)?; Ok(..)
FutResult(x) == IF x.ok THEN "Ok" ELSE "IoError"

\* Faulty variant: the timer is polled before the transfer.
Or_TimerFirst(first, second) ==
    IF second # "Pending" THEN second ELSE first

\* Faulty variant: the transfer is awaited without the timer.
Or_NoTimer(first, second) == first

\* futures_lite's `or`: the first future is polled first, the second only
\* if the first is still pending.
Or(first, second) == IF first # "Pending" THEN first ELSE second

\* The time of the poll that decides the race: block_on is woken by the
\* transfer's completion or by the timer, whichever is earlier, and polls
\* `lat` later.
PollTime(x, lat) ==
    (IF x.completes /\ x.at < timeout THEN x.at ELSE timeout) + lat

\* The value block_on returns for the transfer x polled at time t.
Race(x, t) ==
    Or(IF x.completes /\ x.at <= t THEN FutResult(x) ELSE "Pending",
       IF timeout <= t THEN "TimedOut" ELSE "Pending")

-----------------------------------------------------------------------------
(* dev_info: the response buffer and std::str::from_utf8 *)

\* buf[..n].copy_from_slice(&comp.data)
CopyFromSlice(buf, data) ==
    [i \in 1..Len(buf) |-> IF i <= Len(data) THEN data[i] ELSE buf[i]]

IsCont(b) == b >= 128 /\ b <= 191

RECURSIVE Utf8From(_, _)
\* Whether b[i..] is well-formed UTF-8 (core::str::from_utf8).
Utf8From(b, i) ==
    LET n == Len(b)
        first == b[i]
        At(k) == IF k <= n THEN b[k] ELSE 0
    IN  IF i > n THEN TRUE
        ELSE IF first < 128 THEN Utf8From(b, i + 1)
        ELSE IF first >= 194 /\ first <= 223
            THEN IsCont(At(i + 1)) /\ Utf8From(b, i + 2)
        ELSE IF first >= 224 /\ first <= 239
            THEN /\ \/ first = 224 /\ At(i + 1) >= 160 /\ At(i + 1) <= 191
                    \/ first >= 225 /\ first <= 236 /\ IsCont(At(i + 1))
                    \/ first = 237 /\ At(i + 1) >= 128 /\ At(i + 1) <= 159
                    \/ first >= 238 /\ IsCont(At(i + 1))
                 /\ IsCont(At(i + 2))
                 /\ Utf8From(b, i + 3)
        ELSE IF first >= 240 /\ first <= 244
            THEN /\ \/ first = 240 /\ At(i + 1) >= 144 /\ At(i + 1) <= 191
                    \/ first >= 241 /\ first <= 243 /\ IsCont(At(i + 1))
                    \/ first = 244 /\ At(i + 1) >= 128 /\ At(i + 1) <= 143
                 /\ IsCont(At(i + 2))
                 /\ IsCont(At(i + 3))
                 /\ Utf8From(b, i + 4)
        ELSE FALSE

\* Faulty variant: a lossy decode, which accepts every buffer.
from_utf8_ok_Lossy(b) == TRUE

from_utf8_ok(b) == Utf8From(b, 1)

-----------------------------------------------------------------------------
(* The input file and BufReader::read *)

NoFile == -1

Min(a, b) == IF a < b THEN a ELSE b

NoReader == [fpos |-> 0, pos |-> 0, filled |-> 0]

NoChunk == [off |-> 0, len |-> 0]

\* File::read of a regular file of length len at cursor fpos.
InnerRead(len, fpos, want) == Min(want, len - fpos)

\* Whether this BufReader::read calls the inner File::read.
NeedsInner(r) == r.pos >= r.filled

\* BufReader::read(&mut buf[..buflen]): the reader afterwards, and which
\* file bytes were copied to the front of buf.
BufRead(len, r, buflen) ==
    IF r.pos = r.filled /\ buflen >= DEFAULT_BUF_SIZE
    THEN \* bypass the internal buffer
         LET n == InnerRead(len, r.fpos, buflen)
         IN  [reader |-> [fpos |-> r.fpos + n, pos |-> 0, filled |-> 0],
              chunk |-> [off |-> r.fpos, len |-> n]]
    ELSE LET f == IF NeedsInner(r)
                  THEN \* fill_buf
                       LET n == InnerRead(len, r.fpos, DEFAULT_BUF_SIZE)
                       IN  [fpos |-> r.fpos + n, pos |-> 0, filled |-> n]
                  ELSE r
             nread == Min(f.filled - f.pos, buflen)
         IN  [reader |-> [f EXCEPT !.pos = f.pos + nread],
              chunk |-> [off |-> (f.fpos - f.filled) + f.pos, len |-> nread]]

\* Faulty variant: the loop stops at the first short read.
EndOfStream_ShortRead(len) == len < CHUNK_SIZE

\* if len == 0 { break; }
EndOfStream(len) == len = 0

-----------------------------------------------------------------------------
(* The session: main *)

\* enum Command, with Run's space (file_name is the file opened at Open)
Commands ==
    {[op |-> "cpu-info", space |-> "none"], [op |-> "rom", space |-> "none"],
     [op |-> "run", space |-> "sram"], [op |-> "run", space |-> "dram"]}

Terminal == {"done", "panic"}

Init ==
    /\ devices \in Buses
    /\ cmd \in Commands
    /\ pc = "discover"
    /\ fatal = "none"
    /\ elapsed = 0
    /\ attemptAt = 0
    /\ claimed = 0
    /\ trace = <<>>
    /\ resolved = 0
    /\ xfer = NoXfer
    /\ ibuf = <<>>
    /\ addr = Zeros(8)
    /\ flen = NoFile
    /\ reader = NoReader
    /\ chunk = NoChunk
    /\ failed = FALSE
    /\ ret = "none"
    /\ resp = <<>>
    /\ infoFailed = FALSE
    /\ attempts = 0

\* A failed unwrap/expect: the process panics.
Panic(why) ==
    /\ pc' = "panic"
    /\ fatal' = why

\* Faulty variant: only the vendor id is compared.
IsTarget_VendorOnly(d) == d.vid = KENDRYTE_VID

\* |d| d.vendor_id() == KENDRYTE_VID && d.product_id() == K230D_PID
IsTarget(d) == d.vid = KENDRYTE_VID /\ d.pid = K230D_PID

\* Iterator::find: the position of the first matching device, 0 for None.
Find(ds) ==
    IF \E i \in 1..Len(ds) : IsTarget(ds[i])
    THEN CHOOSE i \in 1..Len(ds) :
            IsTarget(ds[i]) /\ \A j \in 1..(i - 1) : ~IsTarget(ds[j])
    ELSE 0

\* nusb::list_devices().find(vid, pid).expect(..), the descriptor strings,
\* the first interface and di.open().unwrap(); then claim_interface is
\* entered and takes `now`.
Discover ==
    /\ pc = "discover"
    /\ \E r \in (IF Find(devices) = 0 THEN {"absent"}
                 ELSE {"found", "open_failed"}) :
        IF r = "found"
        THEN /\ pc' = "claim_check"
             /\ elapsed' = 0
             /\ attemptAt' = 0
             /\ UNCHANGED fatal
        ELSE /\ Panic(IF r = "absent" THEN "no_device" ELSE "open")
             /\ UNCHANGED <<elapsed, attemptAt>>
    /\ UNCHANGED <<devices, attempts, resp, infoFailed, ret, cmd, failed, claimed, trace, resolved, xfer, ibuf, addr, flen,
                   reader, chunk>>

\* Faulty variant: the window is the retry period.
ClaimLoopCond_Period(e) == e <= CLAIM_INTERFACE_PERIOD

\* while Instant::now() <= now + CLAIM_INTERFACE_TIMEOUT
ClaimLoopCond(e) == e <= CLAIM_INTERFACE_TIMEOUT

\* The loop test of claim_interface; when it fails claim_interface returns
\* Err and main's unwrap panics.
ClaimCheck ==
    /\ pc = "claim_check"
    /\ IF ClaimLoopCond(elapsed)
       THEN /\ pc' = "claim_try"
            /\ attemptAt' = elapsed
            /\ UNCHANGED fatal
       ELSE /\ Panic("claim_failed")
            /\ UNCHANGED attemptAt
    /\ UNCHANGED <<devices, attempts, resp, infoFailed, ret, cmd, failed, elapsed, claimed, trace, resolved, xfer, ibuf, addr,
                   flen, reader, chunk>>

\* Faulty variant: the loop goes on after a successful claim.
AfterClaim_KeepTrying(ok) == "claim_sleep"

\* Ok(i) => return Ok(i), Err(_) => thread::sleep(CLAIM_INTERFACE_PERIOD)
AfterClaim(ok) == IF ok THEN "resolve" ELSE "claim_sleep"

\* match d.claim_interface(ii): Ok returns the interface at once.
ClaimTry ==
    /\ pc = "claim_try"
    /\ \E dur \in ClaimDurations, ok \in BOOLEAN :
        /\ elapsed' = elapsed + dur
        /\ claimed' = IF ok THEN claimed + 1 ELSE claimed
        /\ pc' = AfterClaim(ok)
    /\ attempts' = IF attempts < AttemptsCap THEN attempts + 1 ELSE attempts
    /\ UNCHANGED <<devices, resp, infoFailed, ret, cmd, failed, fatal, attemptAt, trace, resolved, xfer, ibuf, addr,
                   flen, reader, chunk>>

\* Err(_) => thread::sleep(CLAIM_INTERFACE_PERIOD)
ClaimSleep ==
    /\ pc = "claim_sleep"
    /\ \E s \in SleepDurations : elapsed' = elapsed + s
    /\ pc' = "claim_check"
    /\ UNCHANGED <<devices, attempts, resp, infoFailed, ret, cmd, failed, fatal, attemptAt, claimed, trace, resolved, xfer,
                   ibuf, addr, flen, reader, chunk>>

\* di.speed(), the configuration, its first alt setting and the first Out
\* and In endpoints: each unwrap may panic. claim_interface's locals are
\* gone.
Resolve ==
    /\ pc = "resolve"
    /\ \E ok \in BOOLEAN :
        IF ok THEN pc' = "info_send" /\ UNCHANGED fatal ELSE Panic("setup")
    /\ elapsed' = 0
    /\ attemptAt' = 0
    /\ attempts' = 0
    /\ UNCHANGED <<devices, resp, infoFailed, ret, cmd, failed, claimed, trace, resolved, xfer, ibuf, addr, flen,
                   reader, chunk>>

\* fn cmd_out(i: &Interface, request: u8, val: u32) has no return type: the
\* race's result is bound to _res and dropped, and the caller gets ().
cmd_out_return(outcome) == "Unit"

\* Submitting a transfer: it joins the trace, and the device will treat it
\* as dev says.
Submit(t, dev) ==
    /\ trace' = Append(trace, t)
    /\ xfer' = Pending(dev)

\* Faulty variant: the transfer is left running and not awaited.
Await_Detached(lat) ==
    /\ xfer.state = "pending"
    /\ xfer' = NoXfer
    /\ UNCHANGED resolved

\* block_on returns with the race's outcome.
Await(lat) ==
    LET t == PollTime(xfer, lat)
        o == Race(xfer, t)
    IN  /\ xfer.state = "pending"
        /\ o # "Pending"
        /\ xfer' = [xfer EXCEPT !.state = "resolved", !.polled = t,
                                !.outcome = o]
        /\ resolved' = resolved + 1

\* dev_info: let mut buf = [0; 0x20]; cmd_in submits the control-in.
InfoSend ==
    /\ pc = "info_send"
    /\ ibuf' = Zeros(INFO_BUF_LEN)
    /\ \E dev \in DeviceBehaviours : Submit(dev_info_request, dev)
    /\ pc' = "info_wait"
    /\ UNCHANGED <<devices, attempts, resp, infoFailed, ret, cmd, failed, fatal, elapsed, attemptAt, claimed, resolved, addr,
                   flen, reader, chunk>>

\* Faulty variant: the data is copied before the status is looked at.
Received_Unchecked(outcome, buf, data) ==
    IF outcome = "TimedOut" THEN buf ELSE CopyFromSlice(buf, data)

\* comp.status.map_err(..)?; buf[..n].copy_from_slice(&comp.data): buf is
\* written only when the transfer future returned Ok.
Received(outcome, buf, data) ==
    IF outcome = "Ok" THEN CopyFromSlice(buf, data) ELSE buf

\* cmd_in's block_on: the data is copied into buf only when the transfer
\* future itself returned Ok.
InfoWait ==
    /\ pc = "info_wait"
    /\ \E lat \in PollLatencies, data \in Responses :
        /\ Await(lat)
        /\ ibuf' = Received(xfer'.outcome, ibuf, data)
        /\ resp' = IF xfer'.outcome = "Ok" THEN data ELSE <<>>
    /\ infoFailed' = (xfer'.outcome # "Ok")
    /\ pc' = "info_decode"
    /\ UNCHANGED <<devices, attempts, ret, cmd, failed, fatal, elapsed, attemptAt, claimed, trace, addr,
                   flen, reader, chunk>>

\* Faulty variant: only the bytes received are decoded.
reply_bytes_Received(buf, n) == SubSeq(buf, 1, n)

\* from_utf8(&buf): the whole buffer is decoded, whatever was received.
reply_bytes(buf, n) == buf

\* let reply = from_utf8(&buf).unwrap(); println!("Device says: {reply}").
\* At "dispatch" ibuf holds the reply that was printed.
InfoDecode ==
    /\ pc = "info_decode"
    /\ LET reply == reply_bytes(ibuf, Len(resp))
       IN  IF from_utf8_ok(reply)
           THEN pc' = "dispatch" /\ ibuf' = reply /\ UNCHANGED fatal
           ELSE Panic("decode") /\ UNCHANGED ibuf
    /\ xfer' = NoXfer
    /\ UNCHANGED <<devices, attempts, resp, infoFailed, ret, cmd, failed, elapsed, attemptAt, claimed, trace, resolved,
                   addr, flen, reader, chunk>>

\* Faulty variant: Rom falls into the arm of Run.
DispatchTarget_RomLoads(c) ==
    IF c.op = "cpu-info" THEN "done" ELSE "open"

\* Faulty variant: CpuInfo falls into the arm of Rom.
DispatchTarget_InfoStarts(c) ==
    IF c.op = "run" THEN "open" ELSE "start_send"

\* match cmd
DispatchTarget(c) ==
    CASE c.op = "cpu-info" -> "done"
      [] c.op = "rom"      -> "start_send"
      [] c.op = "run"      -> "open"

Dispatch ==
    /\ pc = "dispatch"
    /\ pc' = DispatchTarget(cmd)
    /\ addr' = IF cmd.op = "rom" THEN AsU32(MASK_ROM_BASE) ELSE addr
    /\ ibuf' = <<>>
    /\ resp' = <<>>
    /\ UNCHANGED <<devices, attempts, infoFailed, ret, cmd, failed, fatal, elapsed, attemptAt, claimed, trace, resolved,
                   xfer, flen, reader, chunk>>

\* let input = File::open(file_name).unwrap(); let addr = ...
Open ==
    /\ pc = "open"
    /\ \/ /\ Panic("file_open")
          /\ UNCHANGED <<flen, addr>>
       \/ /\ \E len \in FileLengths : flen' = len
          /\ addr' = RunBase(cmd.space)
          /\ pc' = "addr_send"
          /\ UNCHANGED fatal
    /\ UNCHANGED <<devices, attempts, resp, infoFailed, ret, cmd, failed, elapsed, attemptAt, claimed, trace, resolved, xfer,
                   ibuf, reader, chunk>>

\* set_code_addr(&i, addr)
AddrSend ==
    /\ pc = "addr_send"
    /\ \E dev \in DeviceBehaviours : Submit(set_code_addr(addr), dev)
    /\ pc' = "addr_wait"
    /\ UNCHANGED <<devices, attempts, resp, infoFailed, ret, cmd, failed, fatal, elapsed, attemptAt, claimed, resolved, ibuf,
                   addr, flen, reader, chunk>>

\* cmd_out's block_on; then BufReader::new(input) and buf = [0; CHUNK_SIZE]
AddrWait ==
    /\ pc = "addr_wait"
    /\ \E lat \in PollLatencies : Await(lat)
    /\ ret' = cmd_out_return(xfer'.outcome)
    /\ failed' = (failed \/ xfer'.outcome # "Ok")
    /\ reader' = NoReader
    /\ chunk' = NoChunk
    /\ pc' = "read"
    /\ UNCHANGED <<devices, attempts, resp, infoFailed, cmd, fatal, elapsed, attemptAt, claimed, trace,
                   ibuf,
                   addr, flen>>

\* Faulty variant: a read error ends the loop as the end of the file does.
AfterRead_ErrorEndsLoop(ok, len) ==
    IF ~ok \/ EndOfStream(len) THEN "start_send" ELSE "chunk_send"

\* reader.read(..).unwrap() panics on Err; if len == 0 { break; } leaves
\* the loop for run_code; otherwise the chunk is sent.
AfterRead(ok, len) ==
    IF ~ok THEN "panic"
    ELSE IF EndOfStream(len) THEN "start_send" ELSE "chunk_send"

\* let len = reader.read(&mut buf[..]).unwrap(); if len == 0 { break; }
\* Only a read that reaches the file can fail.
Read ==
    /\ pc = "read"
    /\ \E ok \in (IF NeedsInner(reader) THEN BOOLEAN ELSE {TRUE}) :
        LET r == BufRead(flen, reader, CHUNK_SIZE)
        IN  /\ reader' = IF ok THEN r.reader ELSE reader
            /\ chunk' = IF ok THEN r.chunk ELSE chunk
            /\ fatal' = IF ok THEN fatal ELSE "file_read"
            /\ pc' = AfterRead(ok, r.chunk.len)
    /\ xfer' = NoXfer
    /\ UNCHANGED <<devices, attempts, resp, infoFailed, ret, cmd, failed, elapsed, attemptAt, claimed, trace, resolved, ibuf,
                   addr, flen>>

\* i.bulk_out(e_out_addr, buf[..len].to_vec())
ChunkSend ==
    /\ pc = "chunk_send"
    /\ \E dev \in DeviceBehaviours :
        Submit(BulkOut(chunk.off, chunk.len), dev)
    /\ pc' = "chunk_wait"
    /\ UNCHANGED <<devices, attempts, resp, infoFailed, ret, cmd, failed, fatal, elapsed, attemptAt, claimed, resolved, ibuf,
                   addr, flen, reader, chunk>>

\* Faulty variant: a chunk that did not return Ok is sent again.
AfterChunk_Retry(outcome) == IF outcome = "Ok" THEN "read" ELSE "chunk_send"

\* let _: Result<()> = { .. }: the result is dropped, whatever it is, and
\* the loop goes round.
AfterChunk(outcome) == "read"

\* The upload loop's block_on; its result is dropped and the loop goes on.
ChunkWait ==
    /\ pc = "chunk_wait"
    /\ \E lat \in PollLatencies : Await(lat)
    /\ failed' = (failed \/ xfer'.outcome # "Ok")
    /\ pc' = AfterChunk(xfer'.outcome)
    /\ UNCHANGED <<devices, attempts, resp, infoFailed, ret, cmd, fatal, elapsed, attemptAt, claimed, trace, ibuf,
                   addr, flen, reader, chunk>>

\* run_code(&i, addr) / run_code(&i, MASK_ROM_BASE as u32)
StartSend ==
    /\ pc = "start_send"
    /\ \E dev \in DeviceBehaviours : Submit(run_code(addr), dev)
    /\ pc' = "start_wait"
    /\ UNCHANGED <<devices, attempts, resp, infoFailed, ret, cmd, failed, fatal, elapsed, attemptAt, claimed, resolved, ibuf,
                   addr, flen, reader, chunk>>

\* cmd_out's block_on; main returns.
StartWait ==
    /\ pc = "start_wait"
    /\ \E lat \in PollLatencies : Await(lat)
    /\ ret' = cmd_out_return(xfer'.outcome)
    /\ failed' = (failed \/ xfer'.outcome # "Ok")
    /\ pc' = "done"
    /\ UNCHANGED <<devices, attempts, resp, infoFailed, cmd, fatal, elapsed, attemptAt, claimed, trace,
                   ibuf,
                   addr, flen, reader, chunk>>

Next ==
    \/ Discover
    \/ ClaimCheck
    \/ ClaimTry
    \/ ClaimSleep
    \/ Resolve
    \/ InfoSend
    \/ InfoWait
    \/ InfoDecode
    \/ Dispatch
    \/ Open
    \/ AddrSend
    \/ AddrWait
    \/ Read
    \/ ChunkSend
    \/ ChunkWait
    \/ StartSend
    \/ StartWait

Spec == Init /\ [][Next]_vars

\* Every step of main is taken once it can be: the process is scheduled.
FairSpec == Spec /\ WF_vars(Next)

-----------------------------------------------------------------------------
(* The parameter encoding on its own: cmd_in and cmd_out applied to words  *)
(* drawn from a bounded set.                                               *)

HalfWords ==
    { <<0,0,0,0>>, <<0,0,0,1>>, <<0,0,15,15>>, <<0,1,0,0>>, <<7,15,15,15>>,
      <<8,0,0,0>>, <<8,0,3,6>>, <<1,2,3,4>>, <<15,15,15,14>>,
      <<15,15,15,15>> }

Params == {h \o l : h \in HalfWords, l \in HalfWords}

Opcodes ==
    {EP0_GET_CPU_INFO, EP0_SET_DATA_ADDRESS, EP0_SET_DATA_LENGTH,
     EP0_FLUSH_CACHES, EP0_PROG_START}

EncInit ==
    /\ devices = <<>>
    /\ cmd = [op |-> "cpu-info", space |-> "none"]
    /\ pc = "encode"
    /\ fatal = "none"
    /\ elapsed = 0
    /\ attemptAt = 0
    /\ claimed = 0
    /\ trace = <<>>
    /\ resolved = 0
    /\ xfer = NoXfer
    /\ ibuf = <<>>
    /\ addr \in Params
    /\ flen = NoFile
    /\ reader = NoReader
    /\ chunk = NoChunk
    /\ failed = FALSE
    /\ ret = "none"
    /\ resp = <<>>
    /\ infoFailed = FALSE
    /\ attempts = 0

\* cmd_in(i, buf, request, addr) builds its ControlIn.
EncodeIn ==
    /\ pc = "encode"
    /\ \E request \in Opcodes, buflen \in {0, INFO_BUF_LEN} :
        trace' = <<ControlIn(buflen, request, addr)>>
    /\ pc' = "encoded_in"
    /\ UNCHANGED <<devices, attempts, resp, infoFailed, ret, cmd, failed, fatal, elapsed, attemptAt, claimed, resolved, xfer,
                   ibuf, addr, flen, reader, chunk>>

\* cmd_out(i, request, addr) builds its ControlOut for the same request.
EncodeOut ==
    /\ pc = "encoded_in"
    /\ trace' = Append(trace, ControlOut(trace[1].request, addr))
    /\ pc' = "encoded"
    /\ UNCHANGED <<devices, attempts, resp, infoFailed, ret, cmd, failed, fatal, elapsed, attemptAt, claimed, resolved, xfer,
                   ibuf, addr, flen, reader, chunk>>

EncNext ==
    \/ EncodeIn
    \/ EncodeOut

EncSpec == EncInit /\ [][EncNext]_vars

-----------------------------------------------------------------------------
(* Properties *)

Indices(tr, P(_)) == {i \in 1..Len(tr) : P(tr[i])}

IsBulk(t) == t.type = "bulk_out"
IsInfo(t) == t.type = "control_in"
IsSetAddr(t) == t.type = "control_out" /\ t.request = 1
IsProgStart(t) == t.type = "control_out" /\ t.request = 4

Bulks(tr) == SelectSeq(tr, IsBulk)

\* The whole file has been read: the upload loop has seen the zero read.
ReadToCompletion ==
    cmd.op = "run" /\ pc \in {"start_send", "start_wait", "done"}

C2_AddressBeforeData ==
    \A i \in 1..Len(trace) :
        IsBulk(trace[i]) => \E j \in 1..(i - 1) : IsSetAddr(trace[j])

C2_Witness ==
    /\ pc = "chunk_wait"
    /\ IsBulk(trace[Len(trace)])
    /\ Len(Bulks(trace)) = 1

\* C3: in a run whose file was opened and read to the end, ProgStart is
\* issued exactly once, when the outcome of every earlier transfer is
\* known, and is the last transfer; its parameter is the one given to
\* SetDataAddress: 0x08000000 for dram, 0x80360000 for sram.
C3_ProgStartLast ==
    cmd.op = "run" =>
        LET n == Len(trace)
            starts == Indices(trace, IsProgStart)
            base == IF cmd.space = "dram" THEN <<0,8,0,0,0,0,0,0>>
                    ELSE <<8,0,3,6,0,0,0,0>>
        IN  /\ pc \in {"start_wait", "done"} =>
                /\ starts = {n}
                /\ Indices(trace, IsSetAddr) = {2}
                /\ trace[n].param = trace[2].param
                /\ trace[n].param = base
                /\ trace[n].value = HexVal(SubSeq(base, 1, 4))
                /\ trace[n].index = HexVal(SubSeq(base, 5, 8))
            /\ pc = "start_wait" => resolved = n - 1
            /\ pc = "done" => resolved = n
            /\ pc \notin {"start_wait", "done"} => starts = {}

C3_Witness ==
    /\ pc = "done"
    /\ cmd = [op |-> "run", space |-> "dram"]
    /\ Len(Bulks(trace)) = 3
    /\ IsProgStart(trace[Len(trace)])

\* The session is past the point where the interface is claimed and the
\* endpoints are resolved, and dev_info has submitted its transfer.
PastIdentity ==
    \/ pc \in {"info_wait", "info_decode", "dispatch", "open", "addr_send",
               "addr_wait", "read", "chunk_send", "chunk_wait",
               "start_send", "start_wait", "done"}
    \/ pc = "panic" /\ fatal \in {"decode", "file_open", "file_read"}

\* C4: for every operation, once the interface is claimed and the endpoints
\* are resolved, GetCpuInfo (control-in, request 0, param 0, length 32) is
\* issued exactly once and is the first transfer of the session.
C4_InfoFirst ==
    /\ Cardinality(Indices(trace, IsInfo)) <= 1
    /\ trace # <<>> =>
        /\ trace[1].type = "control_in"
        /\ trace[1].request = 0
        /\ trace[1].value = 0
        /\ trace[1].index = 0
        /\ trace[1].length = 32
    /\ PastIdentity => Indices(trace, IsInfo) = {1}
    /\ ~PastIdentity => trace = <<>>

C4_Witness ==
    /\ pc = "done"
    /\ cmd.op = "cpu-info"
    /\ Len(trace) = 1
    /\ IsInfo(trace[1])

\* C5 as stated: for the rom operation the complete trace of a session that
\* reached the device is GetCpuInfo followed by ProgStart(0x91200000).
C5_RomTraceAlways ==
    (cmd.op = "rom" /\ pc \in Terminal /\ trace # <<>>) =>
        /\ Len(trace) = 2
        /\ IsInfo(trace[1])
        /\ IsProgStart(trace[2])
        /\ trace[2].param = <<9,1,2,0,0,0,0,0>>

\* C5 (amended): for the rom operation no SetDataAddress and no bulk-out
\* transfer is ever issued; a session that runs to completion has the trace
\* GetCpuInfo, ProgStart(0x91200000); a session that ends fatally has issued
\* no ProgStart, and its trace is GetCpuInfo alone when the identity
\* response does not decode.
C5_RomTrace ==
    cmd.op = "rom" =>
        /\ \A i \in 1..Len(trace) :
            ~IsBulk(trace[i]) /\ ~IsSetAddr(trace[i])
        /\ pc = "done" =>
            /\ Len(trace) = 2
            /\ IsInfo(trace[1])
            /\ IsProgStart(trace[2])
            /\ trace[2].param = <<9,1,2,0,0,0,0,0>>
            /\ trace[2].value = 37152
            /\ trace[2].index = 0
        /\ pc = "panic" =>
            /\ Indices(trace, IsProgStart) = {}
            /\ Len(trace) = IF fatal = "decode" THEN 1 ELSE 0

C5_Witness ==
    /\ cmd.op = "rom"
    /\ pc = "done"
    /\ Len(trace) = 2
    /\ xfer.outcome = "Ok"

\* C6 as stated: a transfer that takes longer than the 5 s deadline (or
\* never completes) yields a timeout; one that completes before the deadline
\* yields its real result.
C6_TimeoutIffLate ==
    xfer.state = "resolved" =>
        /\ (~xfer.completes \/ xfer.at > 5000000) =>
                xfer.outcome = "TimedOut"
        /\ (xfer.completes /\ xfer.at < 5000000) =>
                xfer.outcome = (IF xfer.ok THEN "Ok" ELSE "IoError")

\* C6 (amended): every awaited transfer is resolved by a poll no earlier
\* than its completion or its own 5 s deadline; a transfer still pending at
\* the poll that follows the deadline yields a timeout (never a hang); a
\* transfer that completes before the deadline yields its real result,
\* never a timeout; a transfer that completes after the deadline but before
\* that poll yields its real result too.
C6_DeadlineRace ==
    /\ xfer.state = "resolved" =>
        /\ xfer.polled <= 5000000 + MaxPollLatency
        /\ (~xfer.completes \/ xfer.at > xfer.polled) =>
                xfer.outcome = "TimedOut" /\ xfer.polled >= 5000000
        /\ (xfer.completes /\ xfer.at < 5000000) =>
                xfer.outcome = (IF xfer.ok THEN "Ok" ELSE "IoError")
        /\ (xfer.completes /\ xfer.at > 5000000 /\ xfer.at <= xfer.polled) =>
                xfer.outcome = (IF xfer.ok THEN "Ok" ELSE "IoError")
    /\ xfer.state = "resolved" <=> xfer.outcome \in {"Ok", "IoError", "TimedOut"}

\* A bulk-out chunk the device completes only after the deadline: the host
\* gave up on it and went on.
C6_Witness ==
    /\ pc = "read"
    /\ xfer.state = "resolved"
    /\ xfer.completes
    /\ xfer.at > 5000000
    /\ xfer.outcome = "TimedOut"
    /\ IsBulk(trace[Len(trace)])

\* C7: for every operation, every file and every device behaviour
\* (a device that never completes a transfer, a claim that always fails),
\* the session eventually reaches a terminal state.
C7_Terminates == <>(pc \in Terminal)

\* A run that completed although the device never completed ProgStart.
C7_Witness ==
    /\ pc = "done"
    /\ cmd.op = "run"
    /\ flen > 512
    /\ ~xfer.completes
    /\ xfer.outcome = "TimedOut"

\* claim_interface returned Err: every attempt had failed.
ClaimGaveUp == pc = "panic" /\ fatal = "claim_failed"

\* C8 as stated: when every attempt fails, the failure is reported between
\* 1 s and 1 s + 200 us after the first attempt.
C8_FailWithinOnePeriod ==
    ClaimGaveUp =>
        /\ elapsed >= 1000000
        /\ elapsed <= 1000000 + 200

\* The time from the start of an attempt to the next loop test: the attempt
\* itself and the sleep that follows it.
IterationTimes == {d + s : d \in ClaimDurations, s \in SleepDurations}

\* C8 (amended): when every attempt fails, the failure is reported no
\* earlier than 1 s after the first attempt; the last attempt begins no
\* later than 1 s after the first, and the failure is reported after that
\* attempt and one sleep of at least 200 us: within 1 s + 200 us only when
\* the attempt takes no time and the sleep does not oversleep. Every retry
\* follows the previous attempt by the same fixed sleep (no backoff).
C8_ClaimWindow ==
    /\ ClaimGaveUp =>
        /\ elapsed >= 1000000
        /\ attemptAt <= 1000000
        /\ elapsed - attemptAt >= 200
        /\ elapsed - attemptAt = 200 => elapsed <= 1000000 + 200
    /\ (pc = "claim_check" /\ elapsed > 0) \/ ClaimGaveUp =>
        (elapsed - attemptAt) \in IterationTimes

\* The failure comes exactly one period after the 1 s window.
C8_Witness ==
    /\ ClaimGaveUp
    /\ elapsed = 1000000 + 200
    /\ attemptAt = 1000000
    /\ claimed = 0

\* C9: transfers are issued and awaited one at a time in program order: at
\* most one transfer has no known outcome, a transfer is submitted only when
\* every earlier one is resolved (also after a timeout), and the bulk
\* payloads are consecutive pieces of the file, in file order.
C9_Sequential ==
    /\ Len(trace) - resolved \in {0, 1}
    /\ Len(trace) - resolved = 1 <=> xfer.state = "pending"
    /\ pc \in {"info_send", "addr_send", "chunk_send", "start_send"} =>
            resolved = Len(trace)
    /\ LET b == Bulks(trace)
       IN  \A k \in 1..Len(b) :
            b[k].off = IF k = 1 THEN 0 ELSE b[k - 1].off + b[k - 1].length

\* The second chunk was never completed and was abandoned at its deadline;
\* the file has a third chunk, which is read next.
C9_Witness ==
    /\ pc = "read"
    /\ Len(Bulks(trace)) = 2
    /\ ~xfer.completes
    /\ xfer.outcome = "TimedOut"
    /\ flen = 3 * 512
    /\ resolved = Len(trace)

\* C10: a control transfer for the 32-bit parameter p carries
\* value = p >> 16 and index = p & 0xFFFF, both 16-bit, so that
\* (value << 16) | index is p again; request is an opcode, and cmd_in and
\* cmd_out encode the same parameter alike.
C10_Encoding ==
    /\ \A i \in 1..Len(trace) :
        trace[i].type \in {"control_in", "control_out"} =>
            /\ trace[i].value \in 0..65535
            /\ trace[i].index \in 0..65535
            /\ ToHex4(trace[i].value) \o ToHex4(trace[i].index)
                    = trace[i].param
            /\ trace[i].request \in 0..4
    /\ pc = "encoded" =>
        /\ trace[1].type = "control_in" /\ trace[2].type = "control_out"
        /\ trace[1].param = addr /\ trace[2].param = addr
        /\ trace[2].value = trace[1].value
        /\ trace[2].index = trace[1].index
        /\ trace[2].request = trace[1].request

C10_Witness ==
    /\ pc = "encoded"
    /\ addr = <<1,2,3,4,15,15,15,14>>
    /\ trace[2].value = 4660
    /\ trace[2].index = 65534

\* A device with vendor id 0x29F1 and product id 0x0230 is on the bus.
TargetPresent ==
    \E i \in 1..Len(devices) :
        devices[i].vid = 10737 /\ devices[i].pid = 560

\* C11: no transfer is issued unless the interface claim has succeeded, and
\* it succeeds at most once: when no device 0x29F1:0x0230 is present, or
\* when the claim fails, the session ends fatally with zero transfers.
C11_ClaimBeforeTransfers ==
    /\ claimed \in {0, 1}
    /\ trace # <<>> => claimed = 1
    /\ ~TargetPresent =>
        /\ pc \in {"discover", "panic"}
        /\ pc = "panic" => fatal = "no_device"
        /\ trace = <<>> /\ claimed = 0
    /\ ClaimGaveUp => trace = <<>> /\ claimed = 0
    /\ pc \in {"claim_check", "claim_try", "claim_sleep"} => claimed = 0

\* A device of the right vendor but another product: the session is over.
C11_Witness ==
    /\ pc = "panic"
    /\ fatal = "no_device"
    /\ Len(devices) = 1
    /\ devices[1].vid = 10737
    /\ trace = <<>>

\* The transfers of a session that meets no failure, for an operation and
\* a file length: GetCpuInfo, then nothing (cpu-info), ProgStart (rom), or
\* SetDataAddress, the chunks in file order and ProgStart (run).
Ctl(type, request, word, length) ==
    [type |-> type, request |-> request,
     value |-> HexVal(SubSeq(word, 1, 4)), index |-> HexVal(SubSeq(word, 5, 8)),
     length |-> length, param |-> word, off |-> 0]

ExpectedTrace(c, len) ==
    LET base == IF c.space = "dram" THEN <<0,8,0,0,0,0,0,0>>
                ELSE <<8,0,3,6,0,0,0,0>>
        n == (len + 511) \div 512
        info == Ctl("control_in", 0, <<0,0,0,0,0,0,0,0>>, 32)
    IN  CASE c.op = "cpu-info" -> <<info>>
          [] c.op = "rom" ->
                <<info, Ctl("control_out", 4, <<9,1,2,0,0,0,0,0>>, 0)>>
          [] c.op = "run" ->
                <<info, Ctl("control_out", 1, base, 0)>>
                \o [k \in 1..n |->
                        [type |-> "bulk_out", request |-> 0, value |-> 0,
                         index |-> 0, length |-> Min(512 * k, len) - 512 * (k - 1),
                         param |-> <<0,0,0,0,0,0,0,0>>, off |-> 512 * (k - 1)]]
                \o <<Ctl("control_out", 4, base, 0)>>

IsPrefix(a, b) == Len(a) <= Len(b) /\ a = SubSeq(b, 1, Len(a))

\* C12: a timeout or I/O failure of SetDataAddress, of a chunk or of
\* ProgStart is neither retried nor escalated: whatever the outcomes, the
\* transfers issued are those of a session without failures, each once, and
\* no such failure ends the session.
C12_FailuresIgnored ==
    /\ (cmd.op = "run" /\ flen # NoFile) =>
            IsPrefix(trace, ExpectedTrace(cmd, flen))
    /\ (cmd.op = "run" /\ pc = "done") => trace = ExpectedTrace(cmd, flen)
    /\ (cmd.op = "rom" /\ pc = "done") => trace = ExpectedTrace(cmd, 0)
    /\ (failed /\ pc = "panic") => fatal = "file_read"
    /\ (xfer.state = "resolved" /\ xfer.outcome # "Ok") => pc # "panic"

\* The second chunk is about to go out after SetDataAddress or the first
\* chunk timed out or failed.
C12_Witness ==
    /\ pc = "chunk_send"
    /\ failed
    /\ Len(Bulks(trace)) = 1
    /\ chunk.off = 512

\* C13: the command layer reports the outcome of SetDataAddress and
\* ProgStart to its caller: an error value that tells a timeout from an I/O
\* failure when the transfer did not succeed, unit only on success.
C13_OutcomeReported ==
    (xfer.state = "resolved" /\ trace[Len(trace)].type = "control_out") =>
        ret = (IF xfer.outcome = "Ok" THEN "Unit" ELSE xfer.outcome)

\* Byte sequences that are not text in any reading of UTF-8: a byte that
\* never occurs in it, a continuation byte that continues nothing, a lead
\* byte not followed by a continuation byte, an encoded surrogate.
Malformed(b) ==
    \E i \in 1..Len(b) :
        LET next == IF i < Len(b) THEN b[i + 1] ELSE 0
            prev == IF i > 1 THEN b[i - 1] ELSE 0
        IN  \/ b[i] \in {192, 193} \cup 245..255
            \/ b[i] \in 128..191 /\ prev < 128
            \/ b[i] >= 194 /\ next \notin 128..191
            \/ b[i] = 237 /\ next >= 160

\* C14: if the 32-byte identity buffer is not valid text, the session ends
\* fatally at the identity query, whatever the operation: GetCpuInfo stays
\* its only transfer; the session goes past the query only with a buffer
\* that is text.
C14_DecodeFailureFatal ==
    /\ fatal = "decode" =>
        /\ pc = "panic"
        /\ Len(trace) = 1 /\ IsInfo(trace[1])
        /\ Len(ibuf) = 32
    /\ pc = "dispatch" => Len(ibuf) = 32 /\ ~Malformed(ibuf)
    /\ (pc = "panic" /\ Len(ibuf) = 32) => fatal = "decode"
    /\ Len(trace) > 1 => fatal # "decode" /\ ibuf = <<>>

\* A run against a device that answers with the byte 0xFF.
C14_Witness ==
    /\ pc = "panic"
    /\ fatal = "decode"
    /\ cmd.op = "run"
    /\ ibuf[1] = 255
    /\ flen = NoFile

\* C15: for cpu-info, GetCpuInfo is the only transfer of the session: after
\* the identity query the session is over, with no further transfer and no
\* file opened.
C15_InfoOnly ==
    cmd.op = "cpu-info" =>
        /\ Len(trace) <= 1
        /\ \A i \in 1..Len(trace) : IsInfo(trace[i])
        /\ pc \in {"discover", "claim_check", "claim_try", "claim_sleep",
                   "resolve", "info_send", "info_wait", "info_decode",
                   "dispatch", "done", "panic"}
        /\ pc = "done" => Len(trace) = 1 /\ resolved = 1
        /\ flen = NoFile /\ xfer.state = "pending" => pc = "info_wait"

C15_Witness ==
    /\ cmd.op = "cpu-info"
    /\ pc = "done"
    /\ resolved = 1
    /\ claimed = 1
    /\ fatal = "none"
    /\ trace[1].request = 0

RECURSIVE StripNul(_)
\* A byte string without its trailing null bytes.
StripNul(d) ==
    IF d # <<>> /\ d[Len(d)] = 0 THEN StripNul(SubSeq(d, 1, Len(d) - 1))
    ELSE d

C20_InfoFailureIgnored ==
    infoFailed =>
        /\ fatal # "decode"
        /\ pc \in {"info_decode", "dispatch"} =>
            /\ ibuf = Zeros(INFO_BUF_LEN)
            /\ resp = <<>>
        /\ pc = "panic" => cmd.op = "run" /\ fatal \in {"file_open", "file_read"}
        /\ flen # NoFile =>
            IsPrefix(trace, ExpectedTrace(cmd, flen))
        /\ pc = "done" =>
            trace = ExpectedTrace(cmd, IF cmd.op = "run" THEN flen ELSE 0)

\* A run session whose identity query failed loads a two-chunk file and
\* starts it.
C20_Witness ==
    /\ infoFailed
    /\ pc = "done"
    /\ cmd.op = "run"
    /\ Len(Bulks(trace)) = 2
    /\ IsProgStart(trace[Len(trace)])

\* C17: interface acquisition reports failure only after at least one
\* claim attempt, starts an attempt only while at most 1 s has elapsed since
\* it began, and returns from the first successful attempt at once: no
\* further attempt and no sleep follow it, also when the attempt ends after
\* the 1 s window.
C17_ClaimLoop ==
    /\ ClaimGaveUp => attempts >= 1 /\ claimed = 0
    /\ pc = "claim_try" =>
        attemptAt <= CLAIM_INTERFACE_TIMEOUT /\ elapsed = attemptAt
    /\ pc \in {"claim_check", "claim_try", "claim_sleep"} => claimed = 0
    /\ pc = "resolve" =>
        /\ claimed = 1
        /\ attempts >= 1
        /\ attemptAt <= CLAIM_INTERFACE_TIMEOUT
        /\ (elapsed - attemptAt) \in ClaimDurations
    /\ claimed <= 1

\* The last attempt the window allows succeeds after the window has passed.
C17_Witness ==
    /\ pc = "resolve"
    /\ claimed = 1
    /\ attempts = AttemptsCap
    /\ attemptAt = CLAIM_INTERFACE_TIMEOUT
    /\ elapsed > CLAIM_INTERFACE_TIMEOUT

\* C18: the transfer is polled before the timer: a transfer that has
\* completed by the poll that resolves the race, also one that completes at
\* the very instant the deadline expires, yields its own result, never a
\* timeout; a timeout is the outcome only of a transfer that was still
\* pending when the timer fired.
C18_TransferPolledFirst ==
    xfer.state = "resolved" =>
        LET own == IF xfer.ok THEN "Ok" ELSE "IoError"
            done == xfer.completes /\ xfer.at <= xfer.polled
        IN  /\ done => xfer.outcome = own
            /\ (xfer.completes /\ xfer.at = timeout) => xfer.outcome = own
            /\ xfer.outcome = "TimedOut" =>
                /\ ~xfer.completes \/ xfer.at > timeout
                /\ ~done
                /\ xfer.polled >= timeout

\* A transfer the device fails at the instant the deadline expires: the
\* race is resolved at that instant and reports the device's failure.
C18_Witness ==
    /\ xfer.state = "resolved"
    /\ xfer.completes
    /\ ~xfer.ok
    /\ xfer.at = timeout
    /\ xfer.polled = timeout
    /\ xfer.outcome = "IoError"

\* C19: in the run operation a failure to open the file ends the session
\* with the trace GetCpuInfo alone; a failure to read the file ends it after
\* SetDataAddress and the chunks of the bytes read so far; in both cases no
\* ProgStart is issued, while a session that reads the file to its end
\* issues ProgStart even when a chunk transfer had failed.
C19_FileFailures ==
    /\ fatal = "file_open" =>
        /\ cmd.op = "run" /\ pc = "panic"
        /\ Len(trace) = 1 /\ IsInfo(trace[1])
    /\ fatal = "file_read" =>
        LET n == Len(Bulks(trace))
        IN  /\ cmd.op = "run" /\ pc = "panic"
            /\ Indices(trace, IsProgStart) = {}
            /\ Len(trace) = 2 + n
            /\ IsPrefix(trace, ExpectedTrace(cmd, flen))
            /\ Min(CHUNK_SIZE * n, flen) = reader.fpos
    /\ (cmd.op = "run" /\ pc = "done") =>
        /\ fatal = "none"
        /\ IsProgStart(trace[Len(trace)])

\* The read that refills BufReader's buffer fails after sixteen chunks; one
\* of the chunk transfers had failed and did not stop the upload.
C19_Witness ==
    /\ fatal = "file_read"
    /\ pc = "panic"
    /\ Len(Bulks(trace)) = 16
    /\ flen > DEFAULT_BUF_SIZE
    /\ failed

=============================================================================
